---- MODULE Spec2Model ----
(***************************************************************************)
(* Model of samples/material_sandbox.cpp: the callbacks setup(), gui() and *)
(* cleanup() that FilamentApp::run drives, acting on the globals g_params, *)
(* g_scene, g_meshSet, g_meshMaterialInstances and g_shadowPlane.          *)
(***************************************************************************)
EXTENDS Integers, Sequences, FiniteSets, TLC

\* Longest list of mesh files given on the command line (g_filenames).
MaxFiles == 2

\* Item indices of the "model" combo box.
MATERIAL_MODEL_UNLIT == 0
MATERIAL_MODEL_LIT == 1
MATERIAL_MODEL_SUBSURFACE == 2
MATERIAL_MODEL_CLOTH == 3

\* Item indices of the "blending" combo box.
BLENDING_OPAQUE == 0
BLENDING_TRANSPARENT == 1
BLENDING_FADE == 2

\* Index of the default lit instance in g_params.materialInstance.
MATERIAL_LIT == 1

Models == MATERIAL_MODEL_UNLIT .. MATERIAL_MODEL_CLOTH
Blendings == BLENDING_OPAQUE .. BLENDING_FADE

\* g_params.light, the entity of the directional light.
Light == <<"light", 0, 0>>

\* The entity em.create() returns for the shadow plane.
PlaneEntity == <<"plane", 0, 0>>

\* g_params.materialInstance[] and g_params.material[], one per material.
materialInstance == [m \in Models |-> <<"materialInstance", m, 0>>]
material == [m \in Models |-> <<"material", m, 0>>]

EmptyFn == [x \in {} |-> x]

(***************************************************************************)
(* The mesh files the command line can name.  A file is the sequence of    *)
(* renderable entities the loader makes of it; a renderable has a render   *)
(* instance or not, and one primitive per named mesh part.                 *)
(***************************************************************************)
MeshCatalog ==
    [ cube  |-> << [hasInstance |-> TRUE,  parts |-> <<"a">>] >>,
      scene |-> << [hasInstance |-> FALSE, parts |-> <<>>],
                   [hasInstance |-> TRUE,  parts |-> <<"a", "b">>],
                   [hasInstance |-> TRUE,  parts |-> <<>>] >> ]

FileNames == DOMAIN MeshCatalog

\* The names of the mesh parts, in the order of std::string's operator<.
PartOrder == <<"a", "b">>

FileLists == UNION { [1..n -> FileNames] : n \in 1..MaxFiles }

\* The instance the loader keeps under a mesh part's name: made the first
\* time the name is met, reused afterwards.
PartInstance(name) == <<"partInstance", CHOOSE i \in 1..Len(PartOrder) : PartOrder[i] = name, 0>>

\* MeshAssimp::addFromFile for the f-th file: the renderables it appends,
\* the per-part instances it binds, the names it enters in the map.
AddFromFile(f, file) ==
    LET descs == MeshCatalog[file]
        ents  == [k \in 1..Len(descs) |->
                    [entity      |-> <<"renderable", f, k>>,
                     hasInstance |-> descs[k].hasInstance,
                     primCount   |-> Len(descs[k].parts)]]
        used  == UNION { IF descs[k].hasInstance
                         THEN { <<ents[k].entity, i>> : i \in 0..(Len(descs[k].parts) - 1) }
                         ELSE {} : k \in 1..Len(descs) }
        partOf(key) == LET k == CHOOSE k \in 1..Len(descs) : ents[k].entity = key[1]
                       IN  descs[k].parts[key[2] + 1]
    IN  [renderables |-> ents,
         bound       |-> [key \in used |-> PartInstance(partOf(key))],
         names       |-> { partOf(key) : key \in used }]

\* The loop of setup() over g_filenames.
RECURSIVE LoadAll(_, _)
LoadAll(files, n) ==
    IF n = 0
    THEN [renderables |-> <<>>, bound |-> EmptyFn, map |-> EmptyFn]
    ELSE LET before == LoadAll(files, n - 1)
             one    == AddFromFile(n, files[n])
         IN  [renderables |-> before.renderables \o one.renderables,
              bound       |-> before.bound @@ one.bound,
              map         |-> before.map @@
                              [name \in one.names |-> PartInstance(name)]]

VARIABLES
    phase,                    \* "init", "running" (after setup), "done" (after cleanup)
    g_shadowPlane,            \* --shadow-plane was given
    g_filenames,              \* the mesh files of the command line
    params,                   \* g_params
    g_meshSet,                \* g_meshSet->getRenderables(), <<>> when reset
    g_meshMaterialInstances,  \* name -> MaterialInstance*
    scene,                    \* entities of g_scene
    rcmMaterial,              \* RenderableManager: <<entity, primitive>> -> instance
    rcmCastShadows,           \* RenderableManager: entity -> castShadows
    plane,                    \* what setup() built for the shadow plane
    alive,                    \* engine resources created and not destroyed
    destroyLog,               \* the destroy calls of cleanup(), in order
    sceneCalls,               \* the Scene calls of the last callback, in order
    frame,                    \* record of the last gui() frame
    pframe,                   \* record of the gui() frame before it
    shownWidgets,             \* widgets the last gui() frame drew in "Material"
    rcmCalls,                 \* the RenderableManager setters the last callback called
    indirectLight,            \* FilamentApp::get().getIBL() and its indirect light
    view,                     \* what preRender() last set on the view
    destroyedInUse            \* instances cleanup() destroyed while a primitive was bound to them

vars == <<phase, g_shadowPlane, g_filenames, params, g_meshSet,
          g_meshMaterialInstances, scene, rcmMaterial, rcmCastShadows, plane,
          alive, destroyLog, sceneCalls, frame, pframe, shownWidgets, rcmCalls,
          indirectLight, view, destroyedInUse>>

NoFrame == [valid |-> FALSE]
NoPlane == [built |-> FALSE]

\* No --ibl option: getIBL() is null.
NoIbl == [present |-> FALSE]

\* mat3f::rotation(angle, float3{ 0, 1, 0 }) by its columns, the angle in
\* quarter turns.
Cos(q) == <<1, 0, -1, 0>>[(q % 4) + 1]
Sin(q) == <<0, 1, 0, -1>>[(q % 4) + 1]
RotationY(q) == << <<Cos(q), 0, -Sin(q)>>, <<0, 1, 0>>, <<Sin(q), 0, Cos(q)>> >>

\* The values the "ibl" and "ibl rotation" sliders are left at.
IblIntensities == {30000, 50000}
IblRotations == {0, 1}

\* The indirect light as the IBL loader leaves it.
LoadedIbl == [present |-> TRUE, intensity |-> 30000, rotation |-> RotationY(0)]

\* preRender() has not run.
NoView == [set |-> FALSE]

\* The values g_params can hold when setup() is entered.
InitialParams ==
    [currentMaterialModel    : Models,
     currentBlending         : {BLENDING_OPAQUE},
     castShadows             : BOOLEAN,
     directionalLightEnabled : BOOLEAN,
     hasDirectionalLight     : BOOLEAN,
     iblIntensity            : {30000},
     iblRotation             : {0},
     msaa                    : {FALSE},
     tonemapping             : {TRUE},
     dithering               : {TRUE},
     fxaa                    : {TRUE}]

\* The same with the light's sliders anywhere and the material settled.
InitialParamsLight ==
    [currentMaterialModel    : {MATERIAL_MODEL_LIT},
     currentBlending         : {BLENDING_OPAQUE},
     castShadows             : {TRUE},
     directionalLightEnabled : BOOLEAN,
     hasDirectionalLight     : BOOLEAN,
     iblIntensity            : IblIntensities,
     iblRotation             : IblRotations,
     msaa                    : {FALSE},
     tonemapping             : {TRUE},
     dithering               : {TRUE},
     fxaa                    : {TRUE}]

\* The same with the post-processing flags anywhere.
InitialParamsView ==
    [currentMaterialModel    : {MATERIAL_MODEL_LIT},
     currentBlending         : {BLENDING_OPAQUE},
     castShadows             : {TRUE},
     directionalLightEnabled : {TRUE},
     hasDirectionalLight     : {TRUE},
     iblIntensity            : {30000},
     iblRotation             : {0},
     msaa                    : BOOLEAN,
     tonemapping             : BOOLEAN,
     dithering               : BOOLEAN,
     fxaa                    : BOOLEAN]

\* The state before setup(), for a choice of command lines and settings.
InitWith(Params, Files, Planes, Ibls) ==
    /\ phase = "init"
    /\ g_shadowPlane \in Planes
    /\ g_filenames \in Files
    /\ params \in Params
    /\ g_meshSet = <<>>
    /\ g_meshMaterialInstances = EmptyFn
    /\ scene = {}
    /\ rcmMaterial = EmptyFn
    /\ rcmCastShadows = EmptyFn
    /\ plane = NoPlane
    /\ alive = {}
    /\ destroyLog = <<>>
    /\ sceneCalls = <<>>
    /\ frame = NoFrame
    /\ pframe = NoFrame
    /\ shownWidgets = {}
    /\ rcmCalls = {}
    /\ indirectLight \in Ibls
    /\ view = NoView
    /\ destroyedInUse = {}

Init == InitWith(InitialParams, FileLists, BOOLEAN, {NoIbl})

InitLight == InitWith(InitialParamsLight, { <<"cube">> }, {FALSE}, {NoIbl, LoadedIbl})

InitView == InitWith(InitialParamsView, { <<"cube">> }, {FALSE}, {NoIbl})

(***************************************************************************)
(* Scene: a set of entities.                                               *)
(***************************************************************************)
SceneAdd(sc, e) == sc \cup {e}
SceneRemove(sc, e) == sc \ {e}

\* One Scene call as the log keeps it: what was called, on which entity,
\* and whether the entity was a member at that moment.
SceneCall(op, e, sc) == [op |-> op, entity |-> e, wasMember |-> e \in sc]

\* scene->addEntity for a sequence of entities, in order.
RECURSIVE AddEntities(_, _)
AddEntities(sc, ents) ==
    IF ents = <<>>
    THEN [scene |-> sc, calls |-> <<>>]
    ELSE LET rest == AddEntities(SceneAdd(sc, Head(ents)), Tail(ents))
         IN  [scene |-> rest.scene,
              calls |-> <<SceneCall("add", Head(ents), sc)>> \o rest.calls]

\* The primitives of a renderable, as keys of the RenderableManager.
PrimKeys(r) == { <<r.entity, i>> : i \in 0..(r.primCount - 1) }

\* The RenderableManager setters a loop over the renderables calls, as
\* <<setter, entity, primitive>> (primitive 0 for setCastShadows).
RcmCalls(with) ==
    UNION { { <<"setMaterialInstanceAt", with[k].entity, i>> : i \in 0..(with[k].primCount - 1) }
            \cup { <<"setCastShadows", with[k].entity, 0>> } : k \in 1..Len(with) }

\* The renderables of a list for which rcm.getInstance is not null.
WithInstance(renderables) == SelectSeq(renderables, LAMBDA r : r.hasInstance)

(***************************************************************************)
(* setup(): the loop over g_meshSet->getRenderables().                     *)
(***************************************************************************)
\* The loop binding the instance of the current model, not the lit one.
SetupRenderables_CurrentModel(renderables, bound, p) ==
    LET inst == WithInstance(renderables)
        keys == UNION { PrimKeys(inst[k]) : k \in 1..Len(inst) }
    IN  [material    |-> [key \in keys |-> materialInstance[p.currentMaterialModel]] @@ bound,
         castShadows |-> [e \in { inst[k].entity : k \in 1..Len(inst) } |-> p.castShadows],
         calls       |-> RcmCalls(inst),
         added       |-> [k \in 1..Len(inst) |-> inst[k].entity]]

SetupRenderables(renderables, bound, p) ==
    LET inst == WithInstance(renderables)
        keys == UNION { PrimKeys(inst[k]) : k \in 1..Len(inst) }
    IN  [material    |-> [key \in keys |-> materialInstance[MATERIAL_LIT]] @@ bound,
         castShadows |-> [e \in { inst[k].entity : k \in 1..Len(inst) } |-> p.castShadows],
         calls       |-> RcmCalls(inst),
         added       |-> [k \in 1..Len(inst) |-> inst[k].entity]]

(***************************************************************************)
(* setup(): the shadow plane.                                              *)
(***************************************************************************)
\* An index list whose last index is past the four vertices.
indices_PastTheEnd == <<0, 1, 2, 2, 3, 4>>

indices == <<0, 1, 2, 2, 3, 0>>

vertices == << <<-10, 0, -10>>, <<-10, 0, 10>>, <<10, 0, 10>>, <<10, 0, -10>> >>

\* packSnorm16(packTangentFrame(...)) of the frame (X, Z, Y): the identity
\* quaternion (0, 0, 0, 1) in signed 16-bit normalized form.
tbn == <<0, 0, 0, 32767>>

normals == <<tbn, tbn, tbn, tbn>>

BuildShadowPlane(requested) ==
    IF ~requested
    THEN NoPlane
    ELSE [built          |-> TRUE,
          entity         |-> PlaneEntity,
          vertexCount    |-> 4,
          vertices       |-> vertices,
          normals        |-> normals,
          indexCount     |-> 6,
          indices        |-> indices,
          boundingBox    |-> [center |-> <<0, 0, 0>>, halfExtent |-> <<10, "1e-4f", 10>>],
          primitiveType  |-> "TRIANGLES",
          geometry       |-> [offset |-> 0, count |-> 6],
          material       |-> <<"shadowMaterial.defaultInstance", 0, 0>>,
          culling        |-> FALSE,
          receiveShadows |-> TRUE,
          castShadows    |-> FALSE,
          translation    |-> <<0, -1, -4>>,
          resources      |-> { <<"engine", <<"shadowMaterial", 0, 0>> >>,
                               <<"engine", <<"vertexBuffer", 0, 0>> >>,
                               <<"engine", <<"indexBuffer", 0, 0>> >>,
                               <<"engine", PlaneEntity>>,
                               <<"em", PlaneEntity>> }]

\* What createInstances() makes: the materials, their instances, the light.
ResolverResources ==
    { <<"engine", materialInstance[m]>> : m \in Models } \cup
    { <<"engine", material[m]>> : m \in Models } \cup
    { <<"engine", Light>>, <<"em", Light>> }

\* What g_meshSet owns and releases when reset.
MeshSet == <<"meshSet", 0, 0>>

Range(f) == { f[x] : x \in DOMAIN f }

Setup ==
    /\ phase = "init"
    /\ LET loaded == LoadAll(g_filenames, Len(g_filenames))
           s      == SetupRenderables(loaded.renderables, loaded.bound, params)
           built  == BuildShadowPlane(g_shadowPlane)
           ents   == s.added \o <<Light>> \o
                     (IF built.built THEN <<built.entity>> ELSE <<>>)
           after  == AddEntities(scene, ents)
       IN  /\ g_meshSet' = loaded.renderables
           /\ g_meshMaterialInstances' = loaded.map
           /\ rcmMaterial' = IF built.built
                             THEN (<<built.entity, 0>> :> built.material) @@ s.material
                             ELSE s.material
           /\ rcmCastShadows' = IF built.built
                                THEN (built.entity :> built.castShadows) @@ s.castShadows
                                ELSE s.castShadows
           /\ scene' = after.scene
           /\ sceneCalls' = after.calls
           /\ rcmCalls' = s.calls
           /\ plane' = built
           /\ alive' = ResolverResources
                         \cup { <<"engine", h>> : h \in Range(loaded.map) }
                         \cup { <<"meshSet", MeshSet>> }
                         \cup (IF built.built THEN built.resources ELSE {})
    /\ phase' = "running"
    /\ UNCHANGED <<g_shadowPlane, g_filenames, params, destroyLog, frame, pframe,
                   shownWidgets, indirectLight, view, destroyedInUse>>

(***************************************************************************)
(* gui(): the widgets of the "Parameters" window.                          *)
(***************************************************************************)
\* The widgets without the cloth test on metallic and reflectance.
UIWidgets_ClothMetallic(open, model, blending) ==
    IF ~open THEN {} ELSE
    {"model"}
    \cup (IF model = MATERIAL_MODEL_LIT THEN {"blending"} ELSE {})
    \cup {"baseColor"}
    \cup (IF model > MATERIAL_MODEL_UNLIT
          THEN (IF blending = BLENDING_TRANSPARENT \/ blending = BLENDING_FADE
                THEN {"alpha"} ELSE {})
               \cup {"roughness", "metallic", "reflectance"}
               \cup (IF model # MATERIAL_MODEL_CLOTH /\ model # MATERIAL_MODEL_SUBSURFACE
                     THEN {"clearCoat", "clearCoatRoughness", "anisotropy"} ELSE {})
               \cup (IF model = MATERIAL_MODEL_SUBSURFACE
                     THEN {"thickness", "subsurfacePower", "subsurfaceColor"} ELSE {})
               \cup (IF model = MATERIAL_MODEL_CLOTH
                     THEN {"sheenColor", "subsurfaceColor"} ELSE {})
          ELSE {})

\* The widgets drawn under the "Material" header, by the frame's model and
\* blending (the combos are drawn, and may change them, before the tests).
UIWidgets(open, model, blending) ==
    IF ~open THEN {} ELSE
    {"model"}
    \cup (IF model = MATERIAL_MODEL_LIT THEN {"blending"} ELSE {})
    \cup {"baseColor"}
    \cup (IF model > MATERIAL_MODEL_UNLIT
          THEN (IF blending = BLENDING_TRANSPARENT \/ blending = BLENDING_FADE
                THEN {"alpha"} ELSE {})
               \cup {"roughness"}
               \cup (IF model # MATERIAL_MODEL_CLOTH
                     THEN {"metallic", "reflectance"} ELSE {})
               \cup (IF model # MATERIAL_MODEL_CLOTH /\ model # MATERIAL_MODEL_SUBSURFACE
                     THEN {"clearCoat", "clearCoatRoughness", "anisotropy"} ELSE {})
               \cup (IF model = MATERIAL_MODEL_SUBSURFACE
                     THEN {"thickness", "subsurfacePower", "subsurfaceColor"} ELSE {})
               \cup (IF model = MATERIAL_MODEL_CLOTH
                     THEN {"sheenColor", "subsurfaceColor"} ELSE {})
          ELSE {})

\* The edits one frame's widgets make to g_params: open says whether the
\* "Material" header is open, m, b, cs, en are what the user leaves in the
\* model combo, the blending combo and the two checkboxes.  A widget under a
\* closed "Object" or "Light" header leaves its value alone, which is the
\* choice of the value it already has.
GuiEdit(p, open, m, b, cs, en) ==
    LET model == IF open THEN m ELSE p.currentMaterialModel
        blend == IF open /\ model = MATERIAL_MODEL_LIT THEN b ELSE p.currentBlending
    IN  [p EXCEPT !.currentMaterialModel = model,
                  !.currentBlending = blend,
                  !.castShadows = cs,
                  !.directionalLightEnabled = en]

\* updateInstances(): the instance kept for the current material model.
updateInstances(p) == materialInstance[p.currentMaterialModel]

\* The loop binding primitive 0 only.
BindInstances_FirstPrimitive(renderables, mat, cast, inst, p) ==
    LET with == WithInstance(renderables)
        keys == { <<with[k].entity, 0>> : k \in { j \in 1..Len(with) : with[j].primCount > 0 } }
        ents == { with[k].entity : k \in 1..Len(with) }
    IN  [material    |-> [key \in keys |-> inst] @@ mat,
         castShadows |-> [e \in ents |-> p.castShadows] @@ cast,
         calls       |-> { <<"setMaterialInstanceAt", key[1], key[2]>> : key \in keys }
                         \cup { <<"setCastShadows", e, 0>> : e \in ents }]

\* The loop without the test of the render instance.
BindInstances_NoInstanceCheck(renderables, mat, cast, inst, p) ==
    LET keys == UNION { PrimKeys(renderables[k]) : k \in 1..Len(renderables) }
        ents == { renderables[k].entity : k \in 1..Len(renderables) }
    IN  [material    |-> [key \in keys |-> inst] @@ mat,
         castShadows |-> [e \in ents |-> p.castShadows] @@ cast,
         calls       |-> RcmCalls(renderables)]

\* The loop over every renderable of the RenderableManager.
BindInstances_EveryRenderable(renderables, mat, cast, inst, p) ==
    [material    |-> [key \in DOMAIN mat |-> inst],
     castShadows |-> [e \in DOMAIN cast |-> p.castShadows],
     calls       |-> { <<"setMaterialInstanceAt", key[1], key[2]>> : key \in DOMAIN mat }
                     \cup { <<"setCastShadows", e, 0>> : e \in DOMAIN cast }]

\* gui(): the loop over g_meshSet->getRenderables().
BindInstances(renderables, mat, cast, inst, p) ==
    LET with == WithInstance(renderables)
        keys == UNION { PrimKeys(with[k]) : k \in 1..Len(with) }
        ents == { with[k].entity : k \in 1..Len(with) }
    IN  [material    |-> [key \in keys |-> inst] @@ mat,
         castShadows |-> [e \in ents |-> p.castShadows] @@ cast,
         calls       |-> RcmCalls(with)]

\* The add branch without the write of hasDirectionalLight.
LightSync_FlagNotSet(p, sc) ==
    IF p.directionalLightEnabled /\ ~p.hasDirectionalLight
    THEN [params |-> p,
          scene  |-> SceneAdd(sc, Light),
          calls  |-> <<SceneCall("add", Light, sc)>>]
    ELSE IF ~p.directionalLightEnabled /\ p.hasDirectionalLight
    THEN [params |-> [p EXCEPT !.hasDirectionalLight = FALSE],
          scene  |-> SceneRemove(sc, Light),
          calls  |-> <<SceneCall("remove", Light, sc)>>]
    ELSE [params |-> p, scene |-> sc, calls |-> <<>>]

\* The two Scene calls exchanged.
LightSync_RemoveOnEnable(p, sc) ==
    IF p.directionalLightEnabled /\ ~p.hasDirectionalLight
    THEN [params |-> [p EXCEPT !.hasDirectionalLight = TRUE],
          scene  |-> SceneRemove(sc, Light),
          calls  |-> <<SceneCall("remove", Light, sc)>>]
    ELSE IF ~p.directionalLightEnabled /\ p.hasDirectionalLight
    THEN [params |-> [p EXCEPT !.hasDirectionalLight = FALSE],
          scene  |-> SceneAdd(sc, Light),
          calls  |-> <<SceneCall("add", Light, sc)>>]
    ELSE [params |-> p, scene |-> sc, calls |-> <<>>]

\* The remove branch emptying the scene.
LightSync_ClearScene(p, sc) ==
    IF p.directionalLightEnabled /\ ~p.hasDirectionalLight
    THEN [params |-> [p EXCEPT !.hasDirectionalLight = TRUE],
          scene  |-> SceneAdd(sc, Light),
          calls  |-> <<SceneCall("add", Light, sc)>>]
    ELSE IF ~p.directionalLightEnabled /\ p.hasDirectionalLight
    THEN [params |-> [p EXCEPT !.hasDirectionalLight = FALSE],
          scene  |-> {},
          calls  |-> <<SceneCall("remove", Light, sc)>>]
    ELSE [params |-> p, scene |-> sc, calls |-> <<>>]

\* gui(): the light entity follows the "enabled" checkbox.
LightSync(p, sc) ==
    IF p.directionalLightEnabled /\ ~p.hasDirectionalLight
    THEN [params |-> [p EXCEPT !.hasDirectionalLight = TRUE],
          scene  |-> SceneAdd(sc, Light),
          calls  |-> <<SceneCall("add", Light, sc)>>]
    ELSE IF ~p.directionalLightEnabled /\ p.hasDirectionalLight
    THEN [params |-> [p EXCEPT !.hasDirectionalLight = FALSE],
          scene  |-> SceneRemove(sc, Light),
          calls  |-> <<SceneCall("remove", Light, sc)>>]
    ELSE [params |-> p, scene |-> sc, calls |-> <<>>]

\* What a frame leaves in the history of frames.
FrameRecord(before, edited, light, inst) ==
    [valid      |-> TRUE,
     preEnabled |-> before.directionalLightEnabled,
     preHas     |-> before.hasDirectionalLight,
     enabled    |-> edited.directionalLightEnabled,
     has        |-> light.params.hasDirectionalLight,
     lightCalls |-> Len(light.calls),
     resolved   |-> inst]

\* What the history keeps of the frame before the last one.
EarlierFrame(f) ==
    IF ~f.valid
    THEN NoFrame
    ELSE [valid      |-> TRUE,
          preEnabled |-> f.preEnabled,
          preHas     |-> f.preHas,
          enabled    |-> f.enabled,
          has        |-> f.has,
          lightCalls |-> f.lightCalls]

\* The edits of the "ibl" and "ibl rotation" sliders of the "Light" header.
GuiEditLight(p, ibl, rot) ==
    [p EXCEPT !.iblIntensity = ibl, !.iblRotation = rot]

\* The edits of the checkboxes of the "Post-processing" header.
GuiEditPost(p, ms, tm, di, fx) ==
    [p EXCEPT !.msaa = ms, !.tonemapping = tm, !.dithering = di, !.fxaa = fx]

\* The update placed inside the light's branch.
IblSync_OnlyWithLight(p, il) ==
    IF il.present /\ p.hasDirectionalLight
    THEN [il EXCEPT !.intensity = p.iblIntensity,
                    !.rotation = RotationY(p.iblRotation)]
    ELSE il

\* gui(): the indirect light follows the two sliders.
IblSync(p, il) ==
    IF il.present
    THEN [il EXCEPT !.intensity = p.iblIntensity,
                    !.rotation = RotationY(p.iblRotation)]
    ELSE il

\* The values a widget can be left at in a frame: any of S when the user
\* operates it in this session, the value it has otherwise.
Left(T, widget, S, current) == IF widget \in T THEN S ELSE {current}

\* One gui() frame of a session in which the user operates the widgets T.
GuiFrame(T) ==
    /\ phase = "running"
    /\ \E open \in Left(T, "Material", BOOLEAN, FALSE),
          cs \in Left(T, "castShadows", BOOLEAN, params.castShadows),
          en \in Left(T, "enabled", BOOLEAN, params.directionalLightEnabled),
          ibl \in Left(T, "ibl", IblIntensities, params.iblIntensity),
          rot \in Left(T, "ibl rotation", IblRotations, params.iblRotation),
          ms \in Left(T, "msaa 4x", BOOLEAN, params.msaa),
          tm \in Left(T, "tone-mapping", BOOLEAN, params.tonemapping),
          di \in Left(T, "dithering", BOOLEAN, params.dithering),
          fx \in Left(T, "fxaa", BOOLEAN, params.fxaa) :
       \E m \in IF open THEN Models ELSE {params.currentMaterialModel} :
       \E b \in IF open /\ m = MATERIAL_MODEL_LIT THEN Blendings ELSE {params.currentBlending} :
         LET edited == GuiEditPost(GuiEditLight(GuiEdit(params, open, m, b, cs, en),
                                                ibl, rot), ms, tm, di, fx)
             inst   == updateInstances(edited)
             bound  == BindInstances(g_meshSet, rcmMaterial, rcmCastShadows, inst, edited)
             light  == LightSync(edited, scene)
         IN  /\ shownWidgets' = UIWidgets(open, edited.currentMaterialModel,
                                          edited.currentBlending)
             /\ rcmMaterial' = bound.material
             /\ rcmCastShadows' = bound.castShadows
             /\ rcmCalls' = bound.calls
             /\ params' = light.params
             /\ scene' = light.scene
             /\ sceneCalls' = light.calls
             /\ indirectLight' = IblSync(light.params, indirectLight)
             /\ frame' = FrameRecord(params, edited, light, inst)
             /\ pframe' = EarlierFrame(frame)
    /\ UNCHANGED <<phase, g_shadowPlane, g_filenames, g_meshSet,
                   g_meshMaterialInstances, plane, alive, destroyLog, view,
                   destroyedInUse>>

\* A frame in which the user works on the material, the object and the
\* light's checkbox.
Gui == GuiFrame({"Material", "castShadows", "enabled"})

\* A frame in which the user works under the "Light" header.
GuiLight == GuiFrame({"enabled", "ibl", "ibl rotation"})

\* A frame in which the user works under the "Post-processing" header.
GuiView == GuiFrame({"msaa 4x", "tone-mapping", "dithering", "fxaa"})

(***************************************************************************)
(* preRender()                                                             *)
(***************************************************************************)
\* The four settings preRender() makes on the view.
PreRenderView(p) ==
    [set          |-> TRUE,
     antiAliasing |-> IF p.fxaa THEN "FXAA" ELSE "NONE",
     toneMapping  |-> IF p.tonemapping THEN "ACES" ELSE "LINEAR",
     dithering    |-> IF p.dithering THEN "TEMPORAL" ELSE "NONE",
     sampleCount  |-> IF p.msaa THEN 4 ELSE 1]

PreRender ==
    /\ phase = "running"
    /\ frame.valid
    /\ view' = PreRenderView(params)
    /\ UNCHANGED <<phase, g_shadowPlane, g_filenames, params, g_meshSet,
                   g_meshMaterialInstances, scene, rcmMaterial, rcmCastShadows, plane,
                   alive, destroyLog, sceneCalls, frame, pframe, shownWidgets, rcmCalls,
                   indirectLight, destroyedInUse>>

(***************************************************************************)
(* cleanup()                                                               *)
(***************************************************************************)
\* The keys of a std::map<std::string, ...> in iteration order.
SortedKeys(S) == SelectSeq(PartOrder, LAMBDA name : name \in S)

\* engine->destroy(light) twice, em.destroy(light) never.
CleanupCalls_LightTwice(map, light) ==
    LET names == SortedKeys(DOMAIN map)
    IN  [k \in 1..Len(names) |-> <<"engine", map[names[k]]>>]
        \o [k \in 1..(MATERIAL_MODEL_CLOTH + 1) |-> <<"engine", materialInstance[k - 1]>>]
        \o [k \in 1..(MATERIAL_MODEL_CLOTH + 1) |-> <<"engine", material[k - 1]>>]
        \o << <<"meshSet", MeshSet>> >>
        \o << <<"engine", light>>, <<"engine", light>> >>

\* The light destroyed before everything else.
CleanupCalls_LightFirst(map, light) ==
    LET names == SortedKeys(DOMAIN map)
    IN  << <<"engine", light>>, <<"em", light>> >>
        \o [k \in 1..Len(names) |-> <<"engine", map[names[k]]>>]
        \o [k \in 1..(MATERIAL_MODEL_CLOTH + 1) |-> <<"engine", materialInstance[k - 1]>>]
        \o [k \in 1..(MATERIAL_MODEL_CLOTH + 1) |-> <<"engine", material[k - 1]>>]
        \o << <<"meshSet", MeshSet>> >>

\* The destroy calls of cleanup(), in order.
CleanupCalls(map, light) ==
    LET names == SortedKeys(DOMAIN map)
    IN  [k \in 1..Len(names) |-> <<"engine", map[names[k]]>>]
        \o [k \in 1..(MATERIAL_MODEL_CLOTH + 1) |-> <<"engine", materialInstance[k - 1]>>]
        \o [k \in 1..(MATERIAL_MODEL_CLOTH + 1) |-> <<"engine", material[k - 1]>>]
        \o << <<"meshSet", MeshSet>> >>
        \o << <<"engine", light>>, <<"em", light>> >>

\* The instances among the destroy calls that come before the reset of the
\* mesh set and that a primitive of a renderable of the set is bound to.
InUseAtDestroy(calls, renderables, mat) ==
    LET reset == CHOOSE i \in 1..Len(calls) : calls[i] = <<"meshSet", MeshSet>>
        with  == WithInstance(renderables)
        bound == { mat[key] : key \in UNION { PrimKeys(with[k]) : k \in 1..Len(with) } }
    IN  { calls[i][2] : i \in { j \in 1..(reset - 1) : calls[j][1] = "engine" } } \cap bound

Cleanup ==
    /\ phase = "running"
    /\ LET calls == CleanupCalls(g_meshMaterialInstances, Light)
       IN  /\ destroyLog' = destroyLog \o calls
           /\ destroyedInUse' = InUseAtDestroy(calls, g_meshSet, rcmMaterial)
           /\ alive' = alive \ Range(calls)
    /\ g_meshSet' = <<>>
    /\ sceneCalls' = <<>>
    /\ rcmCalls' = {}
    /\ phase' = "done"
    /\ UNCHANGED <<g_shadowPlane, g_filenames, params, g_meshMaterialInstances, scene,
                   rcmMaterial, rcmCastShadows, plane, frame, pframe, shownWidgets,
                   indirectLight, view>>

Next == Setup \/ Gui \/ Cleanup

Spec == Init /\ [][Next]_vars

\* Sessions given to the light: one mesh, no shadow plane, with or without
\* an IBL.
NextLight == Setup \/ GuiLight \/ Cleanup

SpecLight == InitLight /\ [][NextLight]_vars

\* Sessions given to the post-processing flags, preRender() after the frames.
NextView == Setup \/ GuiView \/ PreRender \/ Cleanup

SpecView == InitView /\ [][NextView]_vars

(***************************************************************************)
(* Properties                                                              *)
(***************************************************************************)
Running == phase = "running"

\* The renderables of g_meshSet that have a render instance.
Managed == { g_meshSet[k] : k \in { j \in 1..Len(g_meshSet) : g_meshSet[j].hasInstance } }

\* C1: after setup() and any frames, params.hasDirectionalLight is true
\* exactly when the light entity is a member of the scene, whatever the
\* flags were before setup().
C1_FlagMirrorsScene ==
    Running => (params.hasDirectionalLight <=> Light \in scene)

\* C2: no Scene call on the light is redundant: addEntity(light) only while
\* the light is not in the scene, remove(light) only while it is.
C2_NoRedundantLightCall ==
    \A i \in 1..Len(sceneCalls) :
        sceneCalls[i].entity = Light =>
            /\ sceneCalls[i].op = "add" => ~sceneCalls[i].wasMember
            /\ sceneCalls[i].op = "remove" => sceneCalls[i].wasMember

\* C3: two gui() frames in a row with the "enabled" checkbox at the same
\* value: at most one add/remove of the light over both, none in the second,
\* and the second leaves hasDirectionalLight as it found it.
C3_LightSyncIdempotent ==
    (frame.valid /\ pframe.valid /\ frame.enabled = pframe.enabled) =>
        /\ frame.lightCalls = 0
        /\ pframe.lightCalls + frame.lightCalls <= 1
        /\ frame.has = frame.preHas

C3_Witness ==
    /\ frame.valid /\ pframe.valid
    /\ frame.enabled = pframe.enabled
    /\ pframe.lightCalls = 1

\* The frame began with enabled = false, hasDirectionalLight = false and the
\* checkbox was set in it.
ScenarioA(f) == f.valid /\ ~f.preEnabled /\ ~f.preHas /\ f.enabled

\* C4 (Scenario A): from enabled = false, hasDirectionalLight = false, the
\* frame that sets the checkbox ends with the light in the scene and the flag
\* true; the next frame, the checkbox untouched, makes no Scene call on the
\* light and the light stays in the scene.
C4_ScenarioA ==
    /\ (ScenarioA(frame) /\ Running) => (Light \in scene /\ params.hasDirectionalLight)
    /\ (ScenarioA(pframe) /\ frame.valid /\ frame.enabled = frame.preEnabled /\ Running) =>
           (frame.lightCalls = 0 /\ Light \in scene /\ params.hasDirectionalLight)

C4_Witness ==
    /\ ScenarioA(pframe) /\ frame.valid /\ frame.enabled = frame.preEnabled /\ Running
    /\ Light \in scene

\* C5: after a gui() frame every primitive of every managed renderable that
\* has a render instance is bound to the instance updateInstances() returned
\* in that frame, and the renderable's castShadows is params.castShadows.
C5_AllPrimitivesBound ==
    (frame.valid /\ Running) =>
        \A r \in Managed :
            /\ \A i \in 0..(r.primCount - 1) : rcmMaterial[<<r.entity, i>>] = frame.resolved
            /\ rcmCastShadows[r.entity] = params.castShadows

C5_Witness ==
    /\ frame.valid /\ pframe.valid /\ Running
    /\ frame.resolved = materialInstance[MATERIAL_MODEL_CLOTH]
    /\ \E r \in Managed : r.primCount = 2 /\ rcmMaterial[<<r.entity, 1>>] = frame.resolved
    /\ ~params.castShadows

\* How often cleanup() made a destroy call.
DestroyCount(call) == Cardinality({ i \in 1..Len(destroyLog) : destroyLog[i] = call })

\* What cleanup() owns: the instances of g_meshMaterialInstances, the
\* resolver's instances and materials, the mesh set, the light (its
\* component in the engine, its entity in the entity manager).
Owned ==
    { <<"engine", h>> : h \in Range(g_meshMaterialInstances) } \cup
    ResolverResources \cup
    { <<"meshSet", MeshSet>> }

\* C6: cleanup() destroys each resource it owns exactly once, and nothing
\* twice, whether or not the light is in the scene at that time.
C6_DestroyedOnce ==
    phase = "done" =>
        /\ \A res \in Owned : DestroyCount(res) = 1
        /\ \A i \in 1..Len(destroyLog) : DestroyCount(destroyLog[i]) = 1

C6_Witness ==
    /\ phase = "done"
    /\ Light \notin scene
    /\ Cardinality(Range(g_meshMaterialInstances)) = 2
    /\ Len(g_filenames) = 2

\* C7: the shadow plane is built only on request, and what setup() made for
\* it is no longer alive after cleanup().
C7_PlaneDestroyedAtTeardown ==
    /\ plane.built => g_shadowPlane
    /\ (phase = "done" /\ plane.built) => plane.resources \cap alive = {}

\* The selectors of the "Material" header; the other widgets edit fields.
Selectors == {"model", "blending"}

\* C8 as stated: alpha with every model when the blending is not opaque.
ClaimedFields(model, blending) ==
    {"baseColor"}
    \cup (IF blending \in {BLENDING_TRANSPARENT, BLENDING_FADE} THEN {"alpha"} ELSE {})
    \cup (IF model # MATERIAL_MODEL_UNLIT THEN {"roughness"} ELSE {})
    \cup (IF model \notin {MATERIAL_MODEL_UNLIT, MATERIAL_MODEL_CLOTH}
          THEN {"metallic", "reflectance"} ELSE {})
    \cup (IF model \notin {MATERIAL_MODEL_UNLIT, MATERIAL_MODEL_CLOTH, MATERIAL_MODEL_SUBSURFACE}
          THEN {"clearCoat", "clearCoatRoughness", "anisotropy"} ELSE {})
    \cup (IF model = MATERIAL_MODEL_SUBSURFACE
          THEN {"thickness", "subsurfacePower", "subsurfaceColor"} ELSE {})
    \cup (IF model = MATERIAL_MODEL_CLOTH THEN {"sheenColor", "subsurfaceColor"} ELSE {})

\* C8 amended: alpha only when the model is not unlit.
AmendedFields(model, blending) ==
    (ClaimedFields(model, blending) \ {"alpha"})
    \cup (IF model # MATERIAL_MODEL_UNLIT /\ blending \in {BLENDING_TRANSPARENT, BLENDING_FADE}
          THEN {"alpha"} ELSE {})

\* The "Material" header was open in the last frame.
MaterialOpen == frame.valid /\ shownWidgets # {}

\* C8 (as stated): the fields the open "Material" header offers are the
\* conditional field set, alpha included whenever the blending is
\* transparent or fade.
C8_FieldsAsClaimed ==
    MaterialOpen =>
        shownWidgets \ Selectors =
            ClaimedFields(params.currentMaterialModel, params.currentBlending)

\* C8 (amended): the fields the open "Material" header offers are the
\* conditional field set, with alpha offered only when the model is not unlit
\* and the blending is transparent or fade.
C8_FieldsAmended ==
    MaterialOpen =>
        shownWidgets \ Selectors =
            AmendedFields(params.currentMaterialModel, params.currentBlending)

C8_Witness ==
    /\ MaterialOpen
    /\ params.currentMaterialModel = MATERIAL_MODEL_UNLIT
    /\ params.currentBlending = BLENDING_TRANSPARENT
    /\ shownWidgets \ Selectors = {"baseColor"}

\* setup() has run and no frame yet.
AfterSetup == Running /\ ~frame.valid

\* C9 (as stated): after setup() every renderable of the mesh set and the
\* light are in the scene, and every primitive is bound to the lit instance.
C9_AllInSceneAndLit ==
    AfterSetup =>
        /\ \A k \in 1..Len(g_meshSet) : g_meshSet[k].entity \in scene
        /\ Light \in scene
        /\ \A r \in Managed : \A i \in 0..(r.primCount - 1) :
               rcmMaterial[<<r.entity, i>>] = materialInstance[MATERIAL_LIT]

\* C9 (amended): after setup() a renderable of the mesh set is in the scene
\* exactly when it has a render instance, the light is in the scene, and
\* every primitive of a renderable with a render instance is bound to the
\* lit instance, whatever the current material model.
C9_InstancedInSceneAndLit ==
    AfterSetup =>
        /\ \A k \in 1..Len(g_meshSet) :
               g_meshSet[k].entity \in scene <=> g_meshSet[k].hasInstance
        /\ Light \in scene
        /\ \A r \in Managed : \A i \in 0..(r.primCount - 1) :
               rcmMaterial[<<r.entity, i>>] = materialInstance[MATERIAL_LIT]

C9_Witness ==
    /\ AfterSetup
    /\ params.currentMaterialModel = MATERIAL_MODEL_SUBSURFACE
    /\ \E k \in 1..Len(g_meshSet) : ~g_meshSet[k].hasInstance
    /\ \E r \in Managed : r.primCount = 2

\* The largest absolute value of coordinate c over the vertex positions.
HalfExtent(vs, c) ==
    CHOOSE h \in { IF vs[k][c] < 0 THEN -vs[k][c] ELSE vs[k][c] : k \in 1..Len(vs) } :
        \A k \in 1..Len(vs) : vs[k][c] <= h /\ -vs[k][c] <= h

\* C10: a built shadow plane has 4 vertices, 6 indices making 2 triangles,
\* every index in 0..3, four identical packed tangent frames, and a bounding
\* box whose X and Z half-extents are the 10 units of the vertex positions.
C10_PlaneGeometry ==
    plane.built =>
        /\ plane.vertexCount = 4 /\ Len(plane.vertices) = 4 /\ Len(plane.normals) = 4
        /\ plane.indexCount = 6 /\ Len(plane.indices) = 6
        /\ plane.primitiveType = "TRIANGLES"
        /\ plane.geometry.offset = 0 /\ plane.geometry.count = 2 * 3
        /\ \A k \in 1..Len(plane.indices) : plane.indices[k] \in 0..3
        /\ \A j, k \in 1..Len(plane.normals) : plane.normals[j] = plane.normals[k]
        /\ HalfExtent(plane.vertices, 1) = 10 /\ plane.boundingBox.halfExtent[1] = 10
        /\ HalfExtent(plane.vertices, 3) = 10 /\ plane.boundingBox.halfExtent[3] = 10

C10_Witness == plane.built /\ Running /\ PlaneEntity \in scene

\* The RenderableManager setters the last callback called on an entity.
CallsOn(e) == { c \in rcmCalls : c[2] = e }

\* C11 (as stated): a frame calls no RenderableManager setter on a managed
\* entity that has no render instance or has zero primitives, and calls
\* them for every other entity of the set; the light is reconciled too.
C11_SkippedEntitiesUntouched ==
    (frame.valid /\ Running) =>
        /\ \A k \in 1..Len(g_meshSet) :
               IF ~g_meshSet[k].hasInstance \/ g_meshSet[k].primCount = 0
               THEN CallsOn(g_meshSet[k].entity) = {}
               ELSE CallsOn(g_meshSet[k].entity) = RcmCalls(<<g_meshSet[k]>>)
        /\ frame.has = frame.enabled

\* C11 (amended): a frame calls no RenderableManager setter on a managed
\* entity that has no render instance; on an entity with a render instance
\* and zero primitives it calls setCastShadows only; on every other entity
\* it calls setMaterialInstanceAt for each primitive and setCastShadows; the
\* light is reconciled in the same frame.
C11_OnlyInstancelessSkipped ==
    (frame.valid /\ Running) =>
        /\ \A k \in 1..Len(g_meshSet) :
               LET r == g_meshSet[k]
               IN  CallsOn(r.entity) =
                       IF ~r.hasInstance THEN {}
                       ELSE { <<"setMaterialInstanceAt", r.entity, i>> : i \in 0..(r.primCount - 1) }
                            \cup { <<"setCastShadows", r.entity, 0>> }
        /\ frame.has = frame.enabled

C11_Witness ==
    /\ frame.valid /\ Running
    /\ \E k \in 1..Len(g_meshSet) : ~g_meshSet[k].hasInstance
    /\ \E k \in 1..Len(g_meshSet) :
           /\ g_meshSet[k].hasInstance /\ g_meshSet[k].primCount = 0
           /\ CallsOn(g_meshSet[k].entity) = { <<"setCastShadows", g_meshSet[k].entity, 0>> }
    /\ \E k \in 1..Len(g_meshSet) : g_meshSet[k].primCount = 2
    /\ frame.lightCalls = 1

\* C12: after a frame an indirect light that is present has the intensity
\* params.iblIntensity and the rotation by params.iblRotation about the Y
\* axis, whatever the light's checkbox and flag are and whether or not the
\* light was added or removed in the frame; without an indirect light the
\* frame completes and there is still none.
C12_IblFollowsSliders ==
    (frame.valid /\ Running) =>
        IF indirectLight.present
        THEN /\ indirectLight.intensity = params.iblIntensity
             /\ indirectLight.rotation[2] = <<0, 1, 0>>
             /\ indirectLight.rotation[1] = <<Cos(params.iblRotation), 0, -Sin(params.iblRotation)>>
             /\ indirectLight.rotation[3] = <<Sin(params.iblRotation), 0, Cos(params.iblRotation)>>
        ELSE indirectLight = NoIbl

C12_Witness ==
    /\ frame.valid /\ pframe.valid /\ Running
    /\ indirectLight.present
    /\ indirectLight.intensity = 50000
    /\ indirectLight.rotation = << <<0, 0, -1>>, <<0, 1, 0>>, <<1, 0, 0>> >>
    /\ frame.lightCalls = 1
    /\ ~params.directionalLightEnabled /\ ~params.hasDirectionalLight

\* The step of the teardown a destroy call belongs to: 1 the mesh-part
\* instances, 2 what the resolver owns, 3 the mesh set, 4 the light.
TeardownGroup(call) ==
    IF call[1] = "meshSet" THEN 3
    ELSE IF call[2] = Light THEN 4
    ELSE IF call[2][1] = "partInstance" THEN 1
    ELSE 2

\* C13: cleanup() destroys first the mesh-part instances, then what the
\* resolver owns, then the mesh set, and last the light: no call of a later
\* group comes before a call of an earlier one.
C13_TeardownOrder ==
    phase = "done" =>
        \A i, j \in 1..Len(destroyLog) :
            i < j => TeardownGroup(destroyLog[i]) <= TeardownGroup(destroyLog[j])

C13_Witness ==
    /\ phase = "done"
    /\ \A g \in 1..4 : \E i \in 1..Len(destroyLog) : TeardownGroup(destroyLog[i]) = g
    /\ Cardinality({ i \in 1..Len(destroyLog) : TeardownGroup(destroyLog[i]) = 1 }) = 2

\* C14: with tone-mapping off, the dithering flag does not reach the view:
\* what preRender() set for the current g_params is what it sets for the
\* same g_params with the dithering flag the other way.
C14_DitheringOnlyWithToneMapping ==
    (view.set /\ view = PreRenderView(params) /\ ~params.tonemapping) =>
        PreRenderView([params EXCEPT !.dithering = ~params.dithering]) = view

\* C15: at the end of every gui() frame the light is in the scene exactly
\* when params.directionalLightEnabled is true.
C15_SceneFollowsToggle ==
    (frame.valid /\ Running) =>
        (Light \in scene <=> params.directionalLightEnabled)

\* C16: cleanup() destroys no material instance while a primitive of a
\* renderable of the still-loaded mesh set is bound to it.
C16_NoInstanceDestroyedInUse ==
    phase = "done" => destroyedInUse = {}

\* The entities setup() adds to the scene besides the light.
SetupAdded ==
    { r.entity : r \in Managed } \cup (IF plane.built THEN {plane.entity} ELSE {})

\* C17: after setup() and any frames the scene holds, besides the light,
\* the entities setup() added and no other.
C17_FramesMoveOnlyTheLight ==
    Running => scene \ {Light} = SetupAdded

C17_Witness ==
    /\ Running /\ frame.valid /\ pframe.valid
    /\ frame.lightCalls = 1 /\ pframe.lightCalls = 1
    /\ Light \notin scene
    /\ plane.built /\ PlaneEntity \in scene
    /\ Cardinality(scene) = 4

\* C18: after any frames a built shadow plane still has castShadows false,
\* receiveShadows true, culling false and its ground-shadow material; the
\* frame calls no RenderableManager setter on it.
C18_PlaneUntouched ==
    (plane.built /\ Running /\ frame.valid) =>
        /\ rcmCastShadows[PlaneEntity] = FALSE
        /\ rcmMaterial[<<PlaneEntity, 0>>] = <<"shadowMaterial.defaultInstance", 0, 0>>
        /\ plane.receiveShadows /\ ~plane.culling
        /\ CallsOn(PlaneEntity) = {}

C18_Witness ==
    /\ plane.built /\ Running /\ frame.valid /\ pframe.valid
    /\ params.castShadows
    /\ params.currentMaterialModel = MATERIAL_MODEL_CLOTH
    /\ \E r \in Managed : r.primCount > 0 /\ rcmCastShadows[r.entity]

====
